---- MODULE Spec2Model ----
(***************************************************************************)
(* Model of hooks/pre-compact-decisions.py: the PreCompact hook that reads *)
(* a conversation transcript, asks the external `claude -p` tool for a     *)
(* summary of the design decisions and saves it per project.               *)
(*                                                                         *)
(* Python strings are sequences of one-character strings.  JSON values are *)
(* records tagged by k; a JSON object is a function whose DOMAIN is the    *)
(* set of keys that are present; main's locals hold values tagged the same *)
(* way.  A Python call either returns a value (Ret) or raises an exception *)
(* (Raise).                                                                *)
(***************************************************************************)
EXTENDS Integers, Sequences, FiniteSets, TLC

\* ------------------------------------------------------------ bounds
\* Characters by which the longest message body exceeds the ceiling.
MaxOver == 3
\* Qualifying turns by which the longest transcript exceeds the window.
MaxExtra == 3

\* ------------------------------------------------- program constants
\* len(text) > 3000, text[:3000]
MaxChars == 3000
\* lines[-80:]
MaxTurns == 80
\* hexdigest()[:16]
KeyLen == 16

\* ----------------------------------------------------------- strings
Whitespace == {" ", "\n", "\t"}

RECURSIVE FirstNonWs(_, _)
FirstNonWs(s, i) ==
    IF i > Len(s) THEN i
    ELSE IF s[i] \notin Whitespace THEN i
    ELSE FirstNonWs(s, i + 1)

RECURSIVE LastNonWs(_, _)
LastNonWs(s, i) ==
    IF i < 1 THEN i
    ELSE IF s[i] \notin Whitespace THEN i
    ELSE LastNonWs(s, i - 1)

\* str.strip(): the string without its leading and trailing whitespace.
strip(s) == SubSeq(s, FirstNonWs(s, 1), LastNonWs(s, Len(s)))

\* not s.strip()
AllBlank(s) == FirstNonWs(s, 1) > Len(s)

\* sep.join(parts), computed by halves.
RECURSIVE join(_, _)
join(sep, parts) ==
    IF Len(parts) = 0 THEN <<>>
    ELSE IF Len(parts) = 1 THEN parts[1]
    ELSE LET half == Len(parts) \div 2
         IN join(sep, SubSeq(parts, 1, half)) \o sep
            \o join(sep, SubSeq(parts, half + 1, Len(parts)))

sUser == <<"u", "s", "e", "r">>
sHuman == <<"h", "u", "m", "a", "n">>
sAssistant == <<"a", "s", "s", "i", "s", "t", "a", "n", "t">>
sSystem == <<"s", "y", "s", "t", "e", "m">>
sText == <<"t", "e", "x", "t">>
sToolUse == <<"t", "o", "o", "l", "_", "u", "s", "e">>

\* The labels of line 66 and line 68.
LabelUser == <<"U", "S", "E", "R">>
LabelAssistant == <<"A", "S", "S", "I", "S", "T", "A", "N", "T">>
\* "\n[...truncated...]" of line 74.
TruncationMarker ==
    <<"\n", "[", ".", ".", ".", "t", "r", "u", "n", "c", "a", "t", "e", "d",
      ".", ".", ".", "]">>
\* "\n\n---\n\n" of line 78.
Separator == <<"\n", "\n", "-", "-", "-", "\n", "\n">>

\* ------------------------------------------------------- JSON values
\* What dict.get(key) gives for a key that is not there.
Absent == [k |-> "absent"]
JNull == [k |-> "null"]
\* A non-zero number.
JNum == [k |-> "num"]
JStr(s) == [k |-> "str", s |-> s]
JList(items) == [k |-> "list", items |-> items]
JObj(f) == [k |-> "obj", f |-> f]
EmptyDict == JObj([key \in {} |-> Absent])

\* Python truthiness of a decoded JSON value (of `x or y`, `if not x`).
Truthy(v) ==
    CASE v.k = "absent" -> FALSE
      [] v.k = "null" -> FALSE
      [] v.k = "num" -> TRUE
      [] v.k = "str" -> Len(v.s) > 0
      [] v.k = "list" -> Len(v.items) > 0
      [] v.k = "obj" -> DOMAIN v.f # {}

\* x or y
Or(x, y) == IF Truthy(x) THEN x ELSE y

\* d.get(key, default) on a dict d.
Get(d, key, default) == IF key \in DOMAIN d.f THEN d.f[key] ELSE default

\* v == s for a str literal s.
IsStr(v, s) == v.k = "str" /\ v.s = s

\* ------------------------------------------------ calls and exceptions
Ret(v) == [exc |-> "none", v |-> v]
Raise(name) == [exc |-> name]

\* A local assigned once and then used: F of the value of v, with v
\* evaluated a single time.
Let(v, F(_)) == CHOOSE r \in {F(x) : x \in {v}} : TRUE

\* ------------------------------------------------------- extract_text
\* The parts list of lines 42-47: one item per text block or string item.
RECURSIVE TextParts(_)
TextParts(blocks) ==
    IF Len(blocks) = 0 THEN <<>>
    ELSE LET block == Head(blocks)
             rest == TextParts(Tail(blocks))
         IN IF block.k = "obj" /\ IsStr(Get(block, "type", JNull), sText)
            THEN <<Get(block, "text", JStr(<<>>))>> \o rest
            ELSE IF block.k = "str" THEN <<block>> \o rest
            ELSE rest

\* The parts as strings, for "\n".join(parts).
PartStrings(parts) == [i \in 1..Len(parts) |-> parts[i].s]

\* extract_text(content), lines 38-49.  "\n".join raises TypeError when a
\* text block's "text" is not a str.
extract_text(content) ==
    IF content.k = "str" THEN Ret(content.s)
    ELSE IF content.k = "list"
    THEN Let(TextParts(content.items),
             LAMBDA parts :
                IF \E i \in 1..Len(parts) : parts[i].k # "str"
                THEN Raise("TypeError")
                ELSE Ret(join(<<"\n">>, PartStrings(parts))))
    ELSE Ret(<<>>)

\* -------------------------------------------------- build_conversation
\* Truncate with >= for the > of line 73.
TruncateAtCeiling(text) ==
    IF Len(text) >= MaxChars
    THEN SubSeq(text, 1, MaxChars) \o TruncationMarker
    ELSE text

\* Lines 73-74.
Truncate(text) ==
    IF Len(text) > MaxChars
    THEN SubSeq(text, 1, MaxChars) \o TruncationMarker
    ELSE text

\* Line 57.
ResolveRole(entry) ==
    Or(Or(Get(entry, "type", Absent), Get(entry, "role", Absent)), JStr(<<>>))

\* Line 58 as entry.get("message", entry): the record only when the key is
\* missing.
ResolveMsgKeyOnly(entry) == Get(entry, "message", entry)

\* Line 58.
ResolveMsg(entry) == Or(Get(entry, "message", Absent), entry)

\* Line 59.
ResolveContent(msg) ==
    IF msg.k = "obj" THEN Get(msg, "content", JStr(<<>>)) ELSE JStr(<<>>)

\* Lines 65-70: the label of a role, <<>> for a role that is skipped.
RoleLabel(role) ==
    IF IsStr(role, sUser) \/ IsStr(role, sHuman) THEN LabelUser
    ELSE IF IsStr(role, sAssistant) THEN LabelAssistant
    ELSE <<>>

\* Line 75: f"[{label}]\n{text}".
FormatTurn(label, text) == <<"[">> \o label \o <<"]", "\n">> \o text

\* EntryTurn without the `if not text: continue` of lines 62-63.
EntryTurnKeepsBlank(entry) ==
    IF entry.k # "obj" THEN Raise("AttributeError")
    ELSE LET got == extract_text(ResolveContent(ResolveMsg(entry)))
             label == RoleLabel(ResolveRole(entry))
         IN IF got.exc # "none" THEN got
            ELSE IF label = <<>> THEN Ret(<<>>)
            ELSE Ret(<<FormatTurn(label, Truncate(strip(got.v)))>>)

\* One iteration of the loop of lines 55-75: Ret(<<>>) when the entry is
\* skipped, Ret(<<turn>>) when it is appended, Raise when a call faults
\* (entry.get on a value that is no dict, or extract_text).
EntryTurn(entry) ==
    IF entry.k # "obj" THEN Raise("AttributeError")
    ELSE Let(extract_text(ResolveContent(ResolveMsg(entry))),
             LAMBDA got :
                IF got.exc # "none" THEN got
                ELSE Let(strip(got.v),
                         LAMBDA text :
                            LET label == RoleLabel(ResolveRole(entry))
                            IN IF Len(text) = 0 THEN Ret(<<>>)
                               ELSE IF label = <<>> THEN Ret(<<>>)
                               ELSE Ret(<<FormatTurn(label, Truncate(text))>>)))

\* What the loop of lines 54-75 appends to `lines` for entries[lo..hi], or
\* the first exception raised there; computed by halves.
RECURSIVE BuildLines(_, _, _)
BuildLines(entries, lo, hi) ==
    IF lo > hi THEN Ret(<<>>)
    ELSE IF lo = hi THEN EntryTurn(entries[lo])
    ELSE Let(BuildLines(entries, lo, (lo + hi) \div 2),
             LAMBDA left :
                IF left.exc # "none" THEN left
                ELSE Let(BuildLines(entries, (lo + hi) \div 2 + 1, hi),
                         LAMBDA right :
                            IF right.exc # "none" THEN right
                            ELSE Ret(left.v \o right.v)))

\* lines[:80] for the lines[-80:] of line 78.
FirstTurns(lines) ==
    IF Len(lines) > MaxTurns THEN SubSeq(lines, 1, MaxTurns) ELSE lines

\* lines[-80:]
LastTurns(lines) ==
    IF Len(lines) > MaxTurns
    THEN SubSeq(lines, Len(lines) - MaxTurns + 1, Len(lines))
    ELSE lines

\* build_conversation(entries), lines 52-78.
build_conversation(entries) ==
    Let(BuildLines(entries, 1, Len(entries)),
        LAMBDA built :
            IF built.exc # "none" THEN built
            ELSE Let(LastTurns(built.v),
                     LAMBDA last : Ret(join(Separator, last))))

\* ----------------------------------------------------- read_transcript
\* A transcript file on disk is missing, refuses to open (PermissionError,
\* IsADirectoryError: both OSError), holds bytes the text decoding of open()
\* rejects (UnicodeDecodeError, a ValueError), or holds lines.  A line is
\* blank, text json.loads rejects, or the serialisation of a JSON value.
FileMissing == [st |-> "missing"]
FileDenied == [st |-> "denied"]
FileUndecodable == [st |-> "undecodable"]
FileLines(ls) == [st |-> "lines", lines |-> ls]

BlankLine == [k |-> "blank"]
BadLine == [k |-> "bad"]
JsonLine(v) == [k |-> "json", v |-> v]

\* Lines 26-32: the entries of the lines that decode, in order.
DecodeLines(ls) ==
    LET decoded == SelectSeq(ls, LAMBDA line : line.k = "json")
    IN [i \in 1..Len(decoded) |-> decoded[i].v]

\* read_transcript(transcript_path), lines 22-35, on a disk where `file` is
\* what the path names.  The paths of the model are strings and lists:
\* open() raises TypeError for a list.  The except clause of line 33
\* catches OSError only.
read_transcript(transcript_path, file) ==
    IF transcript_path.k # "str" THEN Raise("TypeError")
    ELSE IF file.st \in {"missing", "denied"} THEN Ret(<<>>)
    ELSE IF file.st = "undecodable" THEN Raise("UnicodeDecodeError")
    ELSE Ret(DecodeLines(file.lines))

\* ---------------------------------------------------- generate_summary
\* What subprocess.run does: the tool exits with a return code and a
\* standard output, runs into the 120 s timeout, or is not on the PATH.
ToolExit(rc, out) == [kind |-> "exit", rc |-> rc, stdout |-> out]
ToolTimeout == [kind |-> "timeout"]
ToolNotFound == [kind |-> "notfound"]

\* generate_summary with the return code of line 126 not looked at.
generate_summary_any_rc(outcome) ==
    IF outcome.kind = "exit" /\ Len(strip(outcome.stdout)) > 0
    THEN JStr(strip(outcome.stdout))
    ELSE JNull

\* generate_summary, lines 118-133: the trimmed output, or None.
generate_summary(outcome) ==
    IF outcome.kind = "exit" /\ outcome.rc = 0 /\ Len(strip(outcome.stdout)) > 0
    THEN JStr(strip(outcome.stdout))
    ELSE JNull

\* ---------------------------------------------------------- project_key
sProj == <<"/", "p">>
sWork == <<"/", "w">>

\* hashlib.md5(cwd.encode()).hexdigest() of the working directories of the
\* model.
Md5Hex(s) ==
    IF s = sProj
    THEN <<"b", "8", "6", "4", "9", "3", "d", "2", "a", "e", "2", "5", "5",
           "a", "0", "2", "b", "b", "7", "e", "a", "6", "1", "e", "7", "f",
           "b", "7", "7", "c", "1", "0">>
    ELSE <<"1", "c", "c", "e", "3", "e", "6", "0", "a", "c", "2", "d", "5",
           "1", "1", "0", "0", "e", "f", "1", "7", "8", "d", "6", "5", "0",
           "9", "a", "4", "9", "7", "2">>

\* project_key(cwd), lines 18-19; cwd.encode() needs a str.
project_key(cwd) ==
    IF cwd.k # "str" THEN Raise("AttributeError")
    ELSE Ret(SubSeq(Md5Hex(cwd.s), 1, KeyLen))

\* ---------------------------------------------------------- file system
Cwds == {sProj, sWork}
Keys == {SubSeq(Md5Hex(c), 1, KeyLen) : c \in Cwds}

NoFile == [exists |-> FALSE]
File(text) == [exists |-> TRUE, text |-> text]
OldText == <<"old">>

\* os.getcwd()
GetCwd == JStr(sWork)

\* The header of lines 176-182; the literal parts are one item each.
Header(generated, cwd, session_id, trigger) ==
    <<"# Design Decisions & Anti-Regression Guide\n**Generated:** ">>
    \o generated
    \o <<"\n**Project:** ">> \o cwd
    \o <<"\n**Session:** ">> \o session_id
    \o <<"\n**Compaction trigger:** ">> \o trigger
    \o <<"\n\n">>

\* What datetime.now().strftime('%Y-%m-%d %H:%M') may give.
Timestamps == {<<"2026-01-01 10:00">>, <<"2026-01-01 10:01">>}

\* The default values of lines 144-145.
sAuto == <<"a", "u", "t", "o">>
sUnknown == <<"u", "n", "k", "n", "o", "w", "n">>

\* ------------------------------------------------------- program state
VARIABLES
    stdin,            \* what standard input holds
    fs,               \* the file system: transcript, storage dir, saved files
    fsAtStart,        \* the file system as the run found it
    pc,               \* the statement of main() the run is at
    payload,          \* main's locals, Unset until assigned
    cwd,
    transcript_path,
    trigger,
    session_id,
    entries,
    lines,            \* build_conversation's list `lines` when its loop ended
    conversation,
    summary,
    header,
    toolCalls,        \* the subprocess.run calls made, with what each gave
    events,           \* the file-system and process calls made, in order
    exit_code,        \* the process's exit code, -1 while it runs
    exception         \* the unhandled exception that ended the run, if any

vars ==
    <<stdin, fs, fsAtStart, pc, payload, cwd, transcript_path, trigger,
      session_id, entries, lines, conversation, summary, header, toolCalls,
      events, exit_code, exception>>

Unset == [k |-> "unset"]

locals ==
    <<payload, cwd, transcript_path, trigger, session_id, entries, lines,
      conversation, summary, header>>

\* sys.exit(0), lines 151, 156, 162, 168 and 194.
Exit0 == pc' = "done" /\ exit_code' = 0 /\ exception' = "none"

\* An exception no handler catches: the interpreter prints the traceback
\* and exits with code 1.
Unhandled(name) == pc' = "done" /\ exit_code' = 1 /\ exception' = name

Continue(at) == pc' = at /\ UNCHANGED <<exit_code, exception>>

\* json.load(sys.stdin) with the handler of lines 139-140.
LoadPayload(in) ==
    IF in.kind \in {"empty", "malformed"} THEN EmptyDict ELSE in.v

\* Lines 137-147: payload.get raises AttributeError unless the payload is a
\* dict.
ReadPayload ==
    /\ pc = "start"
    /\ payload' = LoadPayload(stdin)
    /\ IF payload'.k # "obj"
       THEN /\ Unhandled("AttributeError")
            /\ UNCHANGED <<cwd, transcript_path, trigger, session_id>>
       ELSE /\ cwd' = Or(Get(payload', "cwd", JNull), GetCwd)
            /\ transcript_path' = Get(payload', "transcript_path", JStr(<<>>))
            /\ trigger' = Get(payload', "trigger", JStr(sAuto))
            /\ session_id' = Get(payload', "session_id", JStr(sUnknown))
            /\ Continue("check_path")
    /\ UNCHANGED <<stdin, fs, fsAtStart, entries, lines, conversation,
                   summary, header, toolCalls, events>>

\* CheckPath with `if transcript_path is None` for the `if not
\* transcript_path` of line 149.
CheckPathOnlyNone ==
    /\ pc = "check_path"
    /\ IF transcript_path.k \in {"absent", "null"}
       THEN Exit0 ELSE Continue("read")
    /\ UNCHANGED <<stdin, fs, fsAtStart, locals, toolCalls, events>>

\* Lines 149-151.
CheckPath ==
    /\ pc = "check_path"
    /\ IF ~Truthy(transcript_path) THEN Exit0 ELSE Continue("read")
    /\ UNCHANGED <<stdin, fs, fsAtStart, locals, toolCalls, events>>

\* Lines 153-158.
ReadTranscript ==
    /\ pc = "read"
    /\ \E got \in {read_transcript(transcript_path, fs.transcript)} :
          /\ events' =
                IF transcript_path.k = "str"
                THEN Append(events, "open_transcript") ELSE events
          /\ IF got.exc # "none"
             THEN Unhandled(got.exc) /\ UNCHANGED entries
             ELSE /\ entries' = JList(got.v)
                  /\ IF ~Truthy(entries') THEN Exit0 ELSE Continue("build")
    /\ UNCHANGED <<stdin, fs, fsAtStart, payload, cwd, transcript_path,
                   trigger, session_id, lines, conversation, summary, header,
                   toolCalls>>

\* Lines 159-162.
BuildConversation ==
    /\ pc = "build"
    /\ \E built \in {BuildLines(entries.items, 1, Len(entries.items))},
          got \in {build_conversation(entries.items)} :
          IF got.exc # "none"
          THEN Unhandled(got.exc) /\ UNCHANGED <<lines, conversation>>
          ELSE /\ lines' = JList(built.v)
               /\ conversation' = JStr(got.v)
               /\ IF AllBlank(got.v) THEN Exit0 ELSE Continue("summarize")
    /\ UNCHANGED <<stdin, fs, fsAtStart, payload, cwd, transcript_path,
                   trigger, session_id, entries, summary, header, toolCalls,
                   events>>

\* What the external tool may do.
ToolOutcomes ==
    {ToolExit(0, <<>>), ToolExit(0, <<" ", "\n">>),
     ToolExit(0, <<"S", "U", "M">>), ToolExit(0, <<"\n", "S", " ", "M", "\n">>),
     ToolExit(1, <<>>), ToolExit(1, <<"S", "U", "M">>),
     ToolTimeout, ToolNotFound}

\* GenerateSummary with one more attempt after a first failure.
GenerateSummaryRetry ==
    /\ pc = "summarize"
    /\ \E outcome \in ToolOutcomes :
          /\ toolCalls' =
                Append(toolCalls, [cwd |-> cwd, conversation |-> conversation,
                                   outcome |-> outcome])
          /\ summary' = generate_summary(outcome)
          /\ IF Truthy(summary') THEN Continue("persist")
             ELSE IF Len(toolCalls) = 0 THEN Continue("summarize")
             ELSE Exit0
    /\ events' = Append(events, "run_tool")
    /\ UNCHANGED <<stdin, fs, fsAtStart, payload, cwd, transcript_path,
                   trigger, session_id, entries, lines, conversation, header>>

\* Lines 164-168: one subprocess.run call, whose prompt embeds cwd and the
\* conversation.
GenerateSummary ==
    /\ pc = "summarize"
    /\ \E outcome \in ToolOutcomes :
          /\ toolCalls' =
                Append(toolCalls, [cwd |-> cwd, conversation |-> conversation,
                                   outcome |-> outcome])
          /\ summary' = generate_summary(outcome)
          /\ IF ~Truthy(summary') THEN Exit0 ELSE Continue("persist")
    /\ events' = Append(events, "run_tool")
    /\ UNCHANGED <<stdin, fs, fsAtStart, payload, cwd, transcript_path,
                   trigger, session_id, entries, lines, conversation, header>>

\* Lines 170-185: the key, the storage directory, the header and the
\* per-user file.
SaveSummary ==
    /\ pc = "persist"
    /\ LET key == project_key(cwd)
       IN IF key.exc # "none"
          THEN Unhandled(key.exc) /\ UNCHANGED <<fs, header, events>>
          ELSE \E generated \in Timestamps :
                  /\ header' =
                        JStr(Header(generated, cwd.s, session_id.s, trigger.s))
                  /\ fs' = [fs EXCEPT
                              !.storage_dir = TRUE,
                              !.user[key.v] = File(header'.s \o summary.s)]
                  /\ events' = events \o <<"mkdir_storage", "write_user">>
                  /\ Continue("mirror")
    /\ UNCHANGED <<stdin, fsAtStart, payload, cwd, transcript_path, trigger,
                   session_id, entries, lines, conversation, summary,
                   toolCalls>>

\* SaveLocal with <cwd>/.claude created (mkdir) instead of looked for.
SaveLocalCreatesDir ==
    /\ pc = "mirror"
    /\ fs' = [fs EXCEPT !.dot_claude[cwd.s] = "dir",
                        !.local[cwd.s] = File(header.s \o summary.s)]
    /\ events' = Append(events, "write_local")
    /\ Exit0
    /\ UNCHANGED <<stdin, fsAtStart, locals, toolCalls>>

\* Lines 187-194.
SaveLocal ==
    /\ pc = "mirror"
    /\ IF fs.dot_claude[cwd.s] = "dir"
       THEN /\ fs' = [fs EXCEPT !.local[cwd.s] = File(header.s \o summary.s)]
            /\ events' = Append(events, "write_local")
       ELSE UNCHANGED <<fs, events>>
    /\ Exit0
    /\ UNCHANGED <<stdin, fsAtStart, locals, toolCalls>>

\* main(), lines 136-194.
Next ==
    \/ ReadPayload
    \/ CheckPath
    \/ ReadTranscript
    \/ BuildConversation
    \/ GenerateSummary
    \/ SaveSummary
    \/ SaveLocal

\* --------------------------------------------------------------- inputs
\* A dict with the keys of `rec` whose value is not Absent.
MkDict(rec) ==
    JObj([key \in {x \in DOMAIN rec : rec[x].k # "absent"} |-> rec[key]])

sPath == <<"/", "t">>
sManual == <<"m", "a", "n", "u", "a", "l">>
sSession == <<"s", "1">>

\* Content blocks of a transcript record.
TextBlock(t) == JObj([type |-> JStr(sText), text |-> t])
TextBlockNoText == JObj([type |-> JStr(sText)])
ToolBlock == JObj([type |-> JStr(sToolUse), text |-> JStr(<<"x">>)])

\* Values of a "content" field.
ContentVals ==
    {Absent, JNull, JNum, JObj([text |-> JStr(<<"x">>)]),
     JStr(<<>>), JStr(<<" ", "\n">>), JStr(<<"h", "i">>),
     JStr(<<" ", "h", "i", "\n">>),
     JList(<<>>),
     JList(<<JStr(<<"a">>), TextBlock(JStr(<<"b">>))>>),
     JList(<<TextBlock(JStr(<<" ">>)), JStr(<<>>)>>),
     JList(<<ToolBlock, JNum, TextBlockNoText, JStr(<<"c">>)>>),
     JList(<<TextBlock(JNull)>>)}

TypeVals ==
    {Absent, JNull, JStr(<<>>), JStr(sUser), JStr(sHuman), JStr(sAssistant),
     JStr(sSystem)}

RoleVals == {Absent, JStr(sUser), JStr(sAssistant), JStr(sToolUse)}

\* A record's "message" with its top-level "content": every content under
\* a message that has none of its own, and every content inside a message
\* beside a top-level one.
MessageContentVals ==
    ({Absent, JNull, EmptyDict, JStr(<<"m">>), JObj([id |-> JNum])}
        \X ContentVals)
    \cup ({JObj([content |-> c]) : c \in ContentVals \ {Absent}}
            \X {Absent, JStr(<<"z", "z">>)})

Entry(type, role, message, content) ==
    MkDict([type |-> type, role |-> role, message |-> message,
            content |-> content])

SingleEntries ==
    {Entry(t, r, mc[1], mc[2]) :
        t \in TypeVals, r \in RoleVals, mc \in MessageContentVals}

\* Records of the two transcript schemas, and records that are skipped.
UserHi == Entry(JStr(sUser), Absent, JObj([content |-> JStr(<<"h", "i">>)]), Absent)
AssistantYo == Entry(Absent, JStr(sAssistant), Absent, JStr(<<"y", "o">>))
BlankUser == Entry(JStr(sUser), Absent, Absent, JStr(<<" ", "\n">>))
BlankAssistant ==
    Entry(JStr(sAssistant), Absent, JObj([content |-> JList(<<>>)]), Absent)
BlankSystem == Entry(JStr(sSystem), Absent, Absent, JStr(<<>>))
SystemNote == Entry(JStr(sSystem), Absent, Absent, JStr(<<"n">>))

SmallFiles ==
    {FileMissing, FileDenied, FileUndecodable,
     FileLines(<<>>),
     FileLines(<<BlankLine>>),
     FileLines(<<BadLine, BlankLine, BadLine>>),
     FileLines(<<BadLine, JsonLine(UserHi), BlankLine, BadLine,
                 JsonLine(AssistantYo), BadLine>>),
     FileLines(<<JsonLine(UserHi)>>),
     FileLines(<<JsonLine(JNum)>>),
     FileLines(<<JsonLine(JNull)>>),
     FileLines(<<JsonLine(UserHi), JsonLine(JList(<<>>))>>),
     FileLines(<<JsonLine(BlankUser), JsonLine(BlankAssistant),
                 JsonLine(BlankSystem)>>),
     FileLines(<<JsonLine(BlankUser), JsonLine(UserHi), JsonLine(SystemNote),
                 JsonLine(AssistantYo)>>),
     FileLines(<<JsonLine(SystemNote)>>),
     FileLines(<<JsonLine(EmptyDict)>>)}

\* A message body of n characters, none of them whitespace.
LongBody(n) ==
    [i \in 1..n |-> IF i % 3 = 0 THEN "a" ELSE IF i % 3 = 1 THEN "b" ELSE "c"]

LongLens == {MaxChars - 1, MaxChars, MaxChars + 1, MaxChars + MaxOver}

\* Bodies around the ceiling, bare and inside whitespace that strip() drops.
LongTexts ==
    {LongBody(n) : n \in LongLens}
    \cup {<<" ", "\n">> \o LongBody(n) \o <<"\n">> : n \in LongLens}

\* The q-th turn of a long transcript, and the q-th record that is skipped.
Turn(q) ==
    Entry(IF q % 2 = 1 THEN JStr(sUser) ELSE JStr(sAssistant), Absent, Absent,
          JStr(<<"m", ToString(q)>>))
Skipped(q) ==
    IF q % 8 = 0
    THEN Entry(JStr(sSystem), Absent, Absent, JStr(<<"n", ToString(q)>>))
    ELSE Entry(JStr(sUser), Absent, Absent, JStr(<<" ">>))

\* n turns; with skips, a skipped record stands before every fourth turn.
TurnLines(n, skips) ==
    IF ~skips THEN [p \in 1..n |-> JsonLine(Turn(p))]
    ELSE [p \in 1..(n + n \div 4) |->
            LET g == (p - 1) \div 5
                r == (p - 1) % 5
            IN IF r = 3 THEN JsonLine(Skipped(4 * g + 4))
               ELSE IF r = 4 THEN JsonLine(Turn(4 * g + 4))
               ELSE JsonLine(Turn(4 * g + r + 1))]

TurnCounts == {MaxTurns - 1, MaxTurns, MaxTurns + 1, MaxTurns + MaxExtra}

LongFiles ==
    {FileLines(<<JsonLine(Entry(JStr(sUser), Absent, Absent, JStr(t)))>>) :
        t \in LongTexts}
    \cup {FileLines(TurnLines(n, skips)) :
            n \in TurnCounts, skips \in BOOLEAN}

\* What standard input may hold.
Stdin(v) == [kind |-> "value", v |-> v]
Payload(c, tp, trig, sid) ==
    MkDict([cwd |-> c, transcript_path |-> tp, trigger |-> trig,
            session_id |-> sid])

PathVals == {Absent, JNull, JStr(<<>>), JStr(sPath), JList(<<JNum>>)}

ObjectStdins ==
    {Stdin(Payload(c, tp, trig, sid)) :
        c \in {Absent, JStr(sProj), JNum}, tp \in PathVals,
        trig \in {Absent, JStr(sManual)}, sid \in {Absent, JStr(sSession)}}

OtherStdins ==
    {[kind |-> "empty"], [kind |-> "malformed"], Stdin(JNull), Stdin(JNum),
     Stdin(JList(<<>>)), Stdin(JStr(sPath))}

\* Whether the payload names a transcript main() can go on to read.
NamesTranscript(in) ==
    /\ in.kind = "value"
    /\ in.v.k = "obj"
    /\ Get(in.v, "transcript_path", Absent).k \in {"str", "list"}
    /\ Truthy(Get(in.v, "transcript_path", Absent))

CanonicalStdin == Stdin(Payload(JStr(sProj), JStr(sPath), JStr(sManual), Absent))

\* The file system a run finds: the transcript, and with `prior` the files
\* of an earlier run; dot is what <cwd>/.claude is.
FsStart(file, prior, dot) ==
    [transcript |-> file,
     storage_dir |-> prior,
     user |-> [key \in Keys |-> IF prior THEN File(OldText) ELSE NoFile],
     dot_claude |-> [c \in Cwds |-> dot],
     local |-> [c \in Cwds |->
                  IF prior /\ dot = "dir" THEN File(OldText) ELSE NoFile]]

DotVals == {"absent", "dir", "file"}

InitInputs ==
    \/ /\ stdin \in ObjectStdins \cup OtherStdins
       /\ \E file \in SmallFiles, prior \in BOOLEAN, dot \in DotVals :
             /\ NamesTranscript(stdin) \/ file = FileLines(<<JsonLine(UserHi)>>)
             /\ fs = FsStart(file, prior, dot)
    \/ /\ stdin = CanonicalStdin
       /\ \E e \in SingleEntries :
             fs = FsStart(FileLines(<<JsonLine(e)>>), TRUE, "dir")
    \/ /\ stdin = CanonicalStdin
       /\ \E file \in LongFiles : fs = FsStart(file, TRUE, "dir")

Init ==
    /\ InitInputs
    /\ fsAtStart = fs
    /\ pc = "start"
    /\ payload = Unset
    /\ cwd = Unset
    /\ transcript_path = Unset
    /\ trigger = Unset
    /\ session_id = Unset
    /\ entries = Unset
    /\ lines = Unset
    /\ conversation = Unset
    /\ summary = Unset
    /\ header = Unset
    /\ toolCalls = <<>>
    /\ events = <<>>
    /\ exit_code = -1
    /\ exception = "none"

Spec == Init /\ [][Next]_vars

\* The run is one sequential process: a step that can be taken is taken.
FairSpec == Spec /\ WF_vars(Next)

\* --------------------------------------------------------- properties
AllWhitespace(s) == \A i \in 1..Len(s) : s[i] \in Whitespace

\* The tool failed: a non-zero exit, the timeout, not found, or an output
\* that is empty once trimmed.
ToolFailed(outcome) ==
    \/ outcome.kind \in {"timeout", "notfound"}
    \/ outcome.kind = "exit" /\ (outcome.rc # 0 \/ AllWhitespace(outcome.stdout))

\* Standard input is empty or unparsable, or an object whose
\* transcript_path is missing or empty.
PathMissingOrEmpty(in) ==
    \/ in.kind \in {"empty", "malformed"}
    \/ /\ in.kind = "value"
       /\ in.v.k = "obj"
       /\ LET tp == Get(in.v, "transcript_path", Absent)
          IN tp.k \in {"absent", "null"} \/ (tp.k = "str" /\ Len(tp.s) = 0)

NothingWritten == fs = fsAtStart /\ events \in {<<>>, <<"open_transcript">>}

\* build_conversation has returned.
Built == lines.k = "list"

\* The text build_conversation extracts from a record that is a dict.
ContentText(e) == extract_text(ResolveContent(ResolveMsg(e))).v
HasText(e) == ~AllWhitespace(ContentText(e))
Qualifies(e) == HasText(e) /\ RoleLabel(ResolveRole(e)) # <<>>

\* C1: every run ends with exit code 0, whatever standard input, the
\* transcript and the tool give.
C1_AlwaysExitZero == pc = "done" => exit_code = 0 /\ exception = "none"

\* C2: with transcript_path missing or empty (or standard input empty or
\* unparsable) the run exits 0 and has opened no transcript, run no tool and
\* changed no file.
C2_NoPathSkips ==
    PathMissingOrEmpty(stdin) =>
        /\ pc \in {"start", "check_path", "done"}
        /\ events = <<>>
        /\ toolCalls = <<>>
        /\ fs = fsAtStart
        /\ pc = "done" => exit_code = 0

C2_Witness ==
    /\ pc = "done"
    /\ stdin.kind = "value"
    /\ stdin.v.k = "obj"
    /\ "transcript_path" \notin DOMAIN stdin.v.f
    /\ "cwd" \in DOMAIN stdin.v.f
    /\ fsAtStart.storage_dir

\* C3: when the tool fails (non-zero exit, timeout, not found, or output
\* empty after trimming) generate_summary returns nothing and the run exits
\* 0 with every file as it was.
C3_ToolFailureWritesNothing ==
    \A i \in 1..Len(toolCalls) :
        ToolFailed(toolCalls[i].outcome) =>
            /\ summary = JNull
            /\ pc = "done"
            /\ exit_code = 0
            /\ fs = fsAtStart
            /\ events = <<"open_transcript", "run_tool">>

C3_Witness ==
    /\ Len(toolCalls) = 1
    /\ toolCalls[1].outcome.kind = "exit"
    /\ toolCalls[1].outcome.rc = 1
    /\ Len(toolCalls[1].outcome.stdout) > 0
    /\ pc = "done"
    /\ fsAtStart.user[SubSeq(Md5Hex(sProj), 1, KeyLen)] = File(OldText)

\* The transcript file is missing, unreadable, empty, or has no line that
\* decodes as JSON.
NoValidLines(file) ==
    \/ file.st \in {"missing", "denied", "undecodable"}
    \/ file.st = "lines" /\ \A i \in 1..Len(file.lines) : file.lines[i].k # "json"

\* C4: for a transcript that is missing, unreadable, empty or without a
\* line that decodes, read_transcript returns the empty list and the run
\* exits 0 without running the tool or writing a file.
C4_NoValidLinesSkips ==
    (pc = "done" /\ transcript_path.k = "str" /\ Len(transcript_path.s) > 0
        /\ NoValidLines(fs.transcript)) =>
        /\ entries = JList(<<>>)
        /\ exit_code = 0
        /\ toolCalls = <<>>
        /\ NothingWritten

\* C5: a record whose extracted text is empty or whitespace is left out
\* whatever its role; when every record is left out the conversation is
\* empty and the run exits 0 without running the tool or writing a file.
C5_BlankRecordsExcluded ==
    Built =>
        LET kept == SelectSeq(entries.items, HasText)
        IN /\ lines.items = BuildLines(kept, 1, Len(kept)).v
           /\ Len(kept) = 0 => lines.items = <<>>
           /\ lines.items = <<>> =>
                /\ conversation = JStr(<<>>)
                /\ pc = "done"
                /\ exit_code = 0
                /\ toolCalls = <<>>
                /\ NothingWritten

C5_Witness ==
    /\ Built
    /\ Len(entries.items) = 3
    /\ \A i \in 1..3 : ~HasText(entries.items[i])
    /\ \E i \in 1..3 : RoleLabel(ResolveRole(entries.items[i])) = LabelUser
    /\ \E i \in 1..3 : RoleLabel(ResolveRole(entries.items[i])) = <<>>
    /\ pc = "done"

\* The tool exited 0 with an output that is not empty once trimmed.
ToolSucceeded ==
    /\ Len(toolCalls) = 1
    /\ ~ToolFailed(toolCalls[1].outcome)

\* The file main() is to write when the header carries `generated`.
ExpectedText(generated) ==
    Header(generated, cwd.s,
           Get(payload, "session_id", JStr(sUnknown)).s,
           Get(payload, "trigger", JStr(sAuto)).s)
    \o strip(toolCalls[1].outcome.stdout)

C7_LastTurnsKept ==
    Built =>
        LET turns == SelectSeq(entries.items, Qualifies)
            n == Len(turns)
            first == IF n > MaxTurns THEN n - MaxTurns + 1 ELSE 1
            kept == [j \in 1..(n - first + 1) |->
                        EntryTurn(turns[first + j - 1]).v[1]]
        IN /\ n - first + 1 <= MaxTurns
           /\ conversation = JStr(join(Separator, kept))

C7_Witness ==
    /\ Built
    /\ Len(lines.items) = MaxTurns + 1
    /\ Len(entries.items) > Len(lines.items)
    /\ pc = "summarize"

\* The body of a turn: what follows "[LABEL]\n".
TurnBody(turn, label) == SubSeq(turn, Len(label) + 4, Len(turn))

\* C8: a trimmed body longer than 3000 characters appears as its first
\* 3000 characters followed by the marker, a shorter one unchanged; no body
\* is longer than 3000 characters plus the marker.
C8_BodyTruncated ==
    Built =>
        LET turns == SelectSeq(entries.items, Qualifies)
        IN /\ Len(lines.items) = Len(turns)
           /\ \A j \in 1..Len(turns) :
                LET text == strip(ContentText(turns[j]))
                    label == RoleLabel(ResolveRole(turns[j]))
                    body == TurnBody(lines.items[j], label)
                IN /\ Len(body) <= MaxChars + Len(TruncationMarker)
                   /\ IF Len(text) > MaxChars
                      THEN /\ Len(body) = MaxChars + Len(TruncationMarker)
                           /\ \A i \in 1..MaxChars : body[i] = text[i]
                           /\ SubSeq(body, MaxChars + 1, Len(body))
                                = TruncationMarker
                      ELSE body = text

C8_Witness ==
    /\ Built
    /\ Len(lines.items) = 1
    /\ Len(ContentText(entries.items[1])) > MaxChars + 1
    /\ Len(lines.items[1])
         = Len(LabelUser) + 3 + MaxChars + Len(TruncationMarker)

\* The order of the calls of one run.
Pipeline ==
    <<"open_transcript", "run_tool", "mkdir_storage", "write_user",
      "write_local">>

StepsInOrder ==
    /\ Len(events) <= Len(Pipeline)
    /\ events = SubSeq(Pipeline, 1, Len(events))
    /\ Len(toolCalls) = (IF Len(events) >= 2 THEN 1 ELSE 0)
    /\ Len(toolCalls) > 0 =>
          /\ Truthy(transcript_path)
          /\ Len(entries.items) > 0
          /\ ~AllWhitespace(conversation.s)
          /\ toolCalls[1].conversation = conversation
    /\ (Len(events) >= 3 \/ fs # fsAtStart) =>
          /\ ToolSucceeded
          /\ summary.k = "str"
          /\ Len(summary.s) > 0
    /\ fs.local # fsAtStart.local =>
          \E c \in Cwds : fs.user[SubSeq(Md5Hex(c), 1, KeyLen)]
                            # fsAtStart.user[SubSeq(Md5Hex(c), 1, KeyLen)]

\* C9: the steps of a run happen in a fixed order and at most once each:
\* one tool call at most, after the path, the transcript and the
\* conversation were found non-empty; no write before the tool gave a
\* summary; the mirror after the per-user file; and the run terminates.
C9_OrderedAndTerminates == []StepsInOrder /\ <>(pc = "done")

C9_Witness == pc = "done" /\ events = Pipeline

\* The text of a content value as the claim describes it.
IsTextPiece(b) ==
    \/ b.k = "str"
    \/ b.k = "obj" /\ "type" \in DOMAIN b.f /\ b.f["type"] = JStr(sText)
\* A block whose text is no string makes extract_text fault: no conversation
\* is built from it, and it stands for no text here.
PieceText(b) ==
    IF b.k = "str" THEN b.s
    ELSE IF "text" \in DOMAIN b.f /\ b.f["text"].k = "str"
    THEN b.f["text"].s
    ELSE <<>>
ClaimedText(content) ==
    IF content.k = "str" THEN content.s
    ELSE IF content.k = "list"
    THEN LET pieces == SelectSeq(content.items, IsTextPiece)
         IN join(<<"\n">>, [i \in 1..Len(pieces) |-> PieceText(pieces[i])])
    ELSE <<>>

\* The role as the claim describes it: `type`, or `role` when `type` is
\* absent or empty.
ClaimedRole(e) ==
    LET type == Get(e, "type", Absent)
    IN IF type.k \in {"absent", "null"} \/ (type.k = "str" /\ Len(type.s) = 0)
       THEN Get(e, "role", Absent)
       ELSE type
ClaimedLabel(role) ==
    IF role.k = "str" /\ role.s \in {sUser, sHuman} THEN LabelUser
    ELSE IF role.k = "str" /\ role.s = sAssistant THEN LabelAssistant
    ELSE <<>>

\* The turns of a record whose text comes from `source`.
ClaimedTurn(e, source) ==
    LET text ==
            IF source.k = "obj"
            THEN strip(ClaimedText(Get(source, "content", Absent)))
            ELSE <<>>
        label == ClaimedLabel(ClaimedRole(e))
    IN IF Len(text) = 0 \/ label = <<>> THEN <<>>
       ELSE <<FormatTurn(label, Truncate(text))>>

\* The claim as stated: the message when the record has one, the record
\* itself when `message` is absent.
OriginalTurn(e) ==
    ClaimedTurn(e, IF "message" \in DOMAIN e.f THEN e.f["message"] ELSE e)

\* As amended: the record itself also when `message` is empty (falsy).
AmendedTurn(e) ==
    ClaimedTurn(e, IF "message" \in DOMAIN e.f /\ Truthy(e.f["message"])
                   THEN e.f["message"] ELSE e)

\* Whether the record's message is absent or an object.
MessageAbsentOrObject(e) ==
    "message" \in DOMAIN e.f => e.f["message"].k = "obj"

\* C10, as stated: role from `type`, else `role`; USER for user/human,
\* ASSISTANT for assistant, skipped otherwise; text from the content of the
\* message object, or of the record when `message` is absent.
C10_TextFromMessageUnlessAbsent ==
    (Built /\ \A i \in 1..Len(entries.items) :
                  MessageAbsentOrObject(entries.items[i])) =>
        LET kept == SelectSeq(entries.items, LAMBDA e : Len(OriginalTurn(e)) = 1)
        IN lines.items = [i \in 1..Len(kept) |-> OriginalTurn(kept[i])[1]]

\* C10, amended: the text is that of the record itself when `message` is
\* absent or empty (null, "", {}); a message that is no object gives none.
C10_TextFromMessageUnlessFalsy ==
    Built =>
        LET kept == SelectSeq(entries.items, LAMBDA e : Len(AmendedTurn(e)) = 1)
        IN lines.items = [i \in 1..Len(kept) |-> AmendedTurn(kept[i])[1]]

C10_Witness ==
    /\ Built
    /\ Len(entries.items) = 1
    /\ "message" \in DOMAIN entries.items[1].f
    /\ entries.items[1].f["message"] = EmptyDict
    /\ "role" \notin DOMAIN entries.items[1].f
    /\ lines.items = <<FormatTurn(LabelUser, <<"h", "i">>)>>

====
